---- MODULE Spec2Model ----
(***************************************************************************)
(* Limit order book of src/funex: OrderList (structures.py) holds, per     *)
(* side, a SortedList of the active orders and a dict id -> order;         *)
(* OrderBook (orderbook.py) owns one OrderList per side and the tape.      *)
(*                                                                         *)
(* Orders are objects shared by reference between the SortedList and the   *)
(* dict, so the model keeps one record per order in `ord` and lets the     *)
(* lists and tables hold ids.  Order.created, Order.updated and            *)
(* Order.owner_id are never read by the engine and are left out.           *)
(* datetime.now() is a logical clock that advances at every reading.       *)
(***************************************************************************)
EXTENDS Integers, Sequences, FiniteSets

\* ------------------------------------------------------------------ bounds
MaxOrders == 3
MaxPrice == 3
MaxVolume == 2
MaxOps == 4
MaxNext == 101
MaxRestarts == 1
MaxResets == 1

Ids == 1..MaxOrders
Prices == 1..MaxPrice
Volumes == 1..MaxVolume

\* ------------------------------------------------------- enums, structures
ASK == "ask"
BID == "bid"
OrderType == {ASK, BID}

CREATED == "CREATED"
PARTIALLY_FILLED == "PARTIALLY_FILLED"
FILLED == "FILLED"
MODIFIED == "MODIFIED"
CANCELLED == "CANCELLED"
RESTORED == "RESTORED"
EXPIRED == "EXPIRED"
OrderStatus == {CREATED, PARTIALLY_FILLED, FILLED, MODIFIED, CANCELLED, RESTORED, EXPIRED}

is_active(status) == status \in {CREATED, PARTIALLY_FILLED, MODIFIED, RESTORED}

\* Optional[...] arguments: None, or a supplied value
None == {}
Some(v) == {v}
Val(x) == CHOOSE v \in x : TRUE

\* outcome of a call
OK == "returned"
ValueError == "ValueError"
TypeError == "TypeError"

VARIABLES
  ord,      \* id -> Order object (every order some list or table refers to)
  olist,    \* side -> OrderList.__order_list, a sequence of ids
  ids,      \* side -> keys of OrderList.__ids
  tape,     \* OrderBook.tape
  clock,    \* readings of datetime.now() made so far
  nextId,   \* next id handed to a new Order
  nops,     \* calls made on the book so far
  last,     \* the last call made on the book and how it ended
  hist,     \* history: every trade record OrderBook.fill has appended
  delivered, \* history: every trade record OrderBook.proceede has returned
  gen       \* the OrderIdGenerator of the process, its state file, and what it issued

vars == <<ord, olist, ids, tape, clock, nextId, nops, last, hist, delivered, gen>>

\* The book as one value, threaded through the calls of an operation.
Book ==
  [ord |-> ord, olist |-> olist, ids |-> ids, tape |-> tape, clock |-> clock,
   hist |-> hist]

\* What a call leaves behind: the book, how the call ended, and (a trace
\* annotation) what OrderBook.fill was entered with, if it was entered.
Ret(b, e) == [b |-> b, err |-> e, mf |-> None]

Order(id, order_type, price, volume) ==
  [id |-> id, order_type |-> order_type, price |-> price, volume |-> volume,
   status |-> CREATED, listed |-> 0]

Other(t) == IF t = ASK THEN BID ELSE ASK

SetOrd(b, o, f, v) == [b EXCEPT !.ord[o] = [@ EXCEPT ![f] = v]]

\* ------------------------------------------------------------- SortedList
\* Order.__lt__ : orders compare by price alone
Lt(b, x, y) == b.ord[x].price < b.ord[y].price

\* Order has no __eq__ of its own: BaseModel.__eq__ compares all the fields
Eq(b, x, y) == b.ord[x] = b.ord[y]

RECURSIVE bisect_left_(_, _, _, _, _)
bisect_left_(b, s, x, lo, hi) ==
  IF lo < hi
  THEN LET mid == (lo + hi) \div 2
       IN IF Lt(b, s[mid + 1], x)
          THEN bisect_left_(b, s, x, mid + 1, hi)
          ELSE bisect_left_(b, s, x, lo, mid)
  ELSE lo

RECURSIVE bisect_right_(_, _, _, _, _)
bisect_right_(b, s, x, lo, hi) ==
  IF lo < hi
  THEN LET mid == (lo + hi) \div 2
       IN IF Lt(b, x, s[mid + 1])
          THEN bisect_right_(b, s, x, lo, mid)
          ELSE bisect_right_(b, s, x, mid + 1, hi)
  ELSE lo

\* number of elements left of the insertion point (0-based index)
SL_bisect_left(b, s, x) == bisect_left_(b, s, x, 0, Len(s))
SL_bisect_right(b, s, x) == bisect_right_(b, s, x, 0, Len(s))

\* SortedList.add: insort to the right of equal elements
SL_add(b, s, x) ==
  LET k == SL_bisect_right(b, s, x)
  IN SubSeq(s, 1, k) \o <<x>> \o SubSeq(s, k + 1, Len(s))

\* SortedList.remove: the element found by bisect_left is deleted if it is
\* == value; otherwise (or when nothing is at that index) ValueError is raised.
\* The lists stay far below the load factor, so there is one sublist.
SL_can_remove(b, s, x) ==
  LET k == SL_bisect_left(b, s, x)
  IN k < Len(s) /\ Eq(b, s[k + 1], x)

SL_remove(b, s, x) ==
  LET k == SL_bisect_left(b, s, x)
  IN SubSeq(s, 1, k) \o SubSeq(s, k + 2, Len(s))

\* -------------------------------------------------------------- OrderList
\* OrderList.add(order), tolist = "auto"
OrderList_add(b, t, o) ==
  IF b.ord[o].order_type # t THEN Ret(b, ValueError)
  ELSE LET b1 == IF is_active(b.ord[o].status)
                 THEN LET b0 == IF b.ord[o].listed = 0
                                THEN [SetOrd(b, o, "listed", b.clock + 1)
                                        EXCEPT !.clock = b.clock + 1]
                                ELSE b
                      IN [b0 EXCEPT !.olist[t] = SL_add(b0, b0.olist[t], o)]
                 ELSE b
       IN Ret([b1 EXCEPT !.ids[t] = @ \cup {o}], OK)

\* OrderList.get(order_id): the id table alone decides
OrderList_get(b, t, id) == IF id \in b.ids[t] THEN Some(id) ELSE None

\* OrderList.bisect_left(order, include_right = True)
OrderList_bisect_left(b, t, o) ==
  LET s == b.olist[t]
      cid == SL_bisect_left(b, s, o)
  IN SubSeq(s, cid + 1, Len(s))

\* OrderList.bisect_right(order, include_left = True)
OrderList_bisect_right(b, t, o) ==
  LET s == b.olist[t]
      cid == SL_bisect_right(b, s, o)
  IN SubSeq(s, 1, cid)

\* an unlist that also forgets the order's id, as remove does
OrderList_unlist_purged(b, t, o, order_status) ==
  IF ~is_active(b.ord[o].status) THEN Ret(b, ValueError)
  ELSE IF is_active(order_status) THEN Ret(b, ValueError)
  ELSE IF ~SL_can_remove(b, b.olist[t], o) THEN Ret(b, ValueError)
  ELSE Ret(SetOrd([b EXCEPT !.olist[t] = SL_remove(b, b.olist[t], o),
                            !.ids[t] = @ \ {o}],
                  o, "status", order_status), OK)

\* OrderList.unlist(order, order_status)
OrderList_unlist(b, t, o, order_status) ==
  IF ~is_active(b.ord[o].status) THEN Ret(b, ValueError)
  ELSE IF is_active(order_status) THEN Ret(b, ValueError)
  ELSE IF ~SL_can_remove(b, b.olist[t], o) THEN Ret(b, ValueError)
  ELSE Ret(SetOrd([b EXCEPT !.olist[t] = SL_remove(b, b.olist[t], o)],
                  o, "status", order_status), OK)

\* OrderList.relist(order, order_status = RESTORED)
OrderList_relist(b, t, o, order_status) ==
  IF ~is_active(order_status) THEN Ret(b, ValueError)
  ELSE LET b1 == SetOrd(b, o, "status", order_status)
           b2 == [SetOrd(b1, o, "listed", b1.clock + 1) EXCEPT !.clock = b1.clock + 1]
       IN Ret([b2 EXCEPT !.olist[t] = SL_add(b2, b2.olist[t], o)], OK)

\* OrderList.remove(order)
OrderList_remove(b, t, o) ==
  IF is_active(b.ord[o].status) /\ ~SL_can_remove(b, b.olist[t], o)
  THEN Ret(b, ValueError)
  ELSE LET b1 == IF is_active(b.ord[o].status)
                 THEN [b EXCEPT !.olist[t] = SL_remove(b, b.olist[t], o)]
                 ELSE b
       IN Ret([b1 EXCEPT !.ids[t] = @ \ {o}], OK)

\* OrderList.expire(order)
OrderList_expire(b, t, o) ==
  IF ~is_active(b.ord[o].status) THEN Ret(b, ValueError)
  ELSE IF ~SL_can_remove(b, b.olist[t], o) THEN Ret(b, ValueError)
  ELSE Ret(SetOrd([b EXCEPT !.olist[t] = SL_remove(b, b.olist[t], o)],
                  o, "status", EXPIRED), OK)

\* a cancel that sets the status and leaves the order in the sorted list
OrderList_cancel_listed(b, t, o) ==
  IF ~is_active(b.ord[o].status) THEN Ret(b, ValueError)
  ELSE Ret(SetOrd(b, o, "status", CANCELLED), OK)

\* OrderList.cancel(order)
OrderList_cancel(b, t, o) ==
  IF ~is_active(b.ord[o].status) THEN Ret(b, ValueError)
  ELSE IF ~SL_can_remove(b, b.olist[t], o) THEN Ret(b, ValueError)
  ELSE Ret(SetOrd([b EXCEPT !.olist[t] = SL_remove(b, b.olist[t], o)],
                  o, "status", CANCELLED), OK)

\* a fill that does not test the sign of the volume
OrderList_fill_unsigned(b, t, o, volume) ==
  IF ~is_active(b.ord[o].status) THEN Ret(b, ValueError)
  ELSE IF volume > b.ord[o].volume THEN Ret(b, ValueError)
  ELSE LET b1 == SetOrd(b, o, "volume", b.ord[o].volume - volume)
       IN IF b1.ord[o].volume = 0
          THEN OrderList_unlist(b1, t, o, FILLED)
          ELSE Ret(SetOrd(b1, o, "status", PARTIALLY_FILLED), OK)

\* OrderList.fill(order, volume)
OrderList_fill(b, t, o, volume) ==
  IF volume <= 0 THEN Ret(b, ValueError)
  ELSE IF ~is_active(b.ord[o].status) THEN Ret(b, ValueError)
  ELSE IF volume > b.ord[o].volume THEN Ret(b, ValueError)
  ELSE LET b1 == SetOrd(b, o, "volume", b.ord[o].volume - volume)
       IN IF b1.ord[o].volume = 0
          THEN OrderList_unlist(b1, t, o, FILLED)
          ELSE Ret(SetOrd(b1, o, "status", PARTIALLY_FILLED), OK)

\* a modify that adds an active order again without removing it first
OrderList_modify_readded(b, t, o, price, volume) ==
  IF price = None \/ volume = None THEN Ret(b, TypeError)
  ELSE IF Val(price) <= 0 \/ Val(volume) <= 0 THEN Ret(b, ValueError)
  ELSE LET b2 == SetOrd(b, o, "price", Val(price))
           b3 == SetOrd(b2, o, "volume", Val(volume))
       IN IF is_active(b.ord[o].status)
          THEN LET b4 == SetOrd(b3, o, "status", MODIFIED)
               IN Ret([b4 EXCEPT !.olist[t] = SL_add(b4, b4.olist[t], o)], OK)
          ELSE Ret(b3, OK)

\* a modify that writes the fields of an active order where it rests
OrderList_modify_inplace(b, t, o, price, volume) ==
  IF price = None \/ volume = None THEN Ret(b, TypeError)
  ELSE IF Val(price) <= 0 \/ Val(volume) <= 0 THEN Ret(b, ValueError)
  ELSE LET b2 == SetOrd(b, o, "price", Val(price))
           b3 == SetOrd(b2, o, "volume", Val(volume))
       IN IF is_active(b.ord[o].status)
          THEN Ret(SetOrd(b3, o, "status", MODIFIED), OK)
          ELSE Ret(b3, OK)

\* a modify that does not test the sign of its arguments
OrderList_modify_unvalidated(b, t, o, price, volume) ==
  IF price = None \/ volume = None THEN Ret(b, TypeError)
  ELSE LET relist == is_active(b.ord[o].status)
       IN IF relist /\ ~SL_can_remove(b, b.olist[t], o) THEN Ret(b, ValueError)
          ELSE LET b1 == IF relist THEN [b EXCEPT !.olist[t] = SL_remove(b, b.olist[t], o)]
                         ELSE b
                   b2 == SetOrd(b1, o, "price", Val(price))
                   b3 == SetOrd(b2, o, "volume", Val(volume))
               IN IF relist
                  THEN LET b4 == SetOrd(b3, o, "status", MODIFIED)
                       IN Ret([b4 EXCEPT !.olist[t] = SL_add(b4, b4.olist[t], o)], OK)
                  ELSE Ret(b3, OK)

\* OrderList.modify(order, price, volume, relist = True)
OrderList_modify(b, t, o, price, volume) ==
  IF price = None \/ volume = None THEN Ret(b, TypeError)
  ELSE IF Val(price) <= 0 \/ Val(volume) <= 0 THEN Ret(b, ValueError)
  ELSE LET relist == is_active(b.ord[o].status)
       IN IF relist /\ ~SL_can_remove(b, b.olist[t], o) THEN Ret(b, ValueError)
          ELSE LET b1 == IF relist
                         THEN [b EXCEPT !.olist[t] = SL_remove(b, b.olist[t], o)]
                         ELSE b
                   b2 == SetOrd(b1, o, "price", Val(price))
                   b3 == SetOrd(b2, o, "volume", Val(volume))
               IN IF relist
                  THEN LET b4 == SetOrd(b3, o, "status", MODIFIED)
                       IN Ret([b4 EXCEPT !.olist[t] = SL_add(b4, b4.olist[t], o)], OK)
                  ELSE Ret(b3, OK)

\* a sort by `listed` with the latest listed first
RECURSIVE sort_by_listed_latest(_, _)
sort_by_listed_latest(b, s) ==
  IF Len(s) <= 1 THEN s
  ELSE LET r == sort_by_listed_latest(b, SubSeq(s, 1, Len(s) - 1))
           x == s[Len(s)]
           k == Cardinality({i \in 1..Len(r) : b.ord[r[i]].listed >= b.ord[x].listed})
       IN SubSeq(r, 1, k) \o <<x>> \o SubSeq(r, k + 1, Len(r))

\* -------------------------------------------------------------- OrderBook
\* a sort that leaves the candidates in the order of the sorted list
sort_by_listed_unsorted(b, s) == s

\* list.sort(key = lambda x: x.listed): a stable sort
RECURSIVE sort_by_listed(_, _)
sort_by_listed(b, s) ==
  IF Len(s) <= 1 THEN s
  ELSE LET r == sort_by_listed(b, SubSeq(s, 1, Len(s) - 1))
           x == s[Len(s)]
           k == Cardinality({i \in 1..Len(r) : b.ord[r[i]].listed <= b.ord[x].listed})
       IN SubSeq(r, 1, k) \o <<x>> \o SubSeq(r, k + 1, Len(r))

\* a match that bisects the wrong way round
match_swapped(b, o) ==
  LET matched == IF b.ord[o].order_type = ASK
                 THEN OrderList_bisect_right(b, BID, o)
                 ELSE OrderList_bisect_left(b, ASK, o)
  IN sort_by_listed(b, matched)

\* OrderBook.match(order_)
match(b, o) ==
  LET matched == IF b.ord[o].order_type = ASK
                 THEN OrderList_bisect_left(b, BID, o)
                 ELSE OrderList_bisect_right(b, ASK, o)
  IN sort_by_listed(b, matched)

Min(x, y) == IF x <= y THEN x ELSE y

\* a trade record that carries the aggressor's price
Trade_taker(b, o, c, price_, volume_) ==
  [order |-> o, contr_order |-> c, price |-> b.ord[o].price, volume |-> volume_,
   time |-> b.clock + 1]

\* the dict appended to the tape
Trade(b, o, c, price_, volume_) ==
  [order |-> o, contr_order |-> c, price |-> price_, volume |-> volume_,
   time |-> b.clock + 1]

\* a loop without the break on a filled order
RECURSIVE fill_from_nobreak(_, _, _, _)
fill_from_nobreak(b, o, counter_orders, i) ==
  IF i > Len(counter_orders) THEN Ret(b, OK)
  ELSE LET c_order == counter_orders[i]
           source == b.ord[o].order_type
           c_source == b.ord[counter_orders[1]].order_type
           price_ == b.ord[c_order].price
           volume_ == Min(b.ord[o].volume, b.ord[c_order].volume)
           r1 == OrderList_fill(b, source, o, volume_)
           r2 == OrderList_fill(r1.b, c_source, c_order, volume_)
           t == Trade(r2.b, o, c_order, price_, volume_)
           b3 == [r2.b EXCEPT !.tape = Append(@, t), !.hist = Append(@, t),
                              !.clock = @ + 1]
       IN IF r1.err # OK THEN r1
          ELSE IF r2.err # OK THEN r2
          ELSE fill_from_nobreak(b3, o, counter_orders, i + 1)

\* OrderBook.fill(order_, counter_orders): the loop from the i-th counter order on
RECURSIVE fill_from(_, _, _, _)
fill_from(b, o, counter_orders, i) ==
  IF i > Len(counter_orders) THEN Ret(b, OK)
  ELSE LET c_order == counter_orders[i]
           source == b.ord[o].order_type
           c_source == b.ord[counter_orders[1]].order_type
           price_ == b.ord[c_order].price
           volume_ == Min(b.ord[o].volume, b.ord[c_order].volume)
           r1 == OrderList_fill(b, source, o, volume_)
           r2 == OrderList_fill(r1.b, c_source, c_order, volume_)
           t == Trade(r2.b, o, c_order, price_, volume_)
           b3 == [r2.b EXCEPT !.tape = Append(@, t), !.hist = Append(@, t),
                              !.clock = @ + 1]
       IN IF r1.err # OK THEN r1
          ELSE IF r2.err # OK THEN r2
          ELSE IF b3.ord[o].status = FILLED THEN Ret(b3, OK)
          ELSE fill_from(b3, o, counter_orders, i + 1)

\* a fill that leaves its loop after the first counter order
fill_first(b, o, counter_orders) ==
  IF counter_orders = <<>> THEN Ret(b, OK)
  ELSE fill_from(b, o, <<counter_orders[1]>>, 1)

fill(b, o, counter_orders) ==
  IF counter_orders = <<>> THEN Ret(b, OK) ELSE fill_from(b, o, counter_orders, 1)

\* OrderBook.match_fill(order)
match_fill(b, o) ==
  [fill(b, o, match(b, o)) EXCEPT
     !.mf = Some([order |-> o, volume |-> b.ord[o].volume, counter_orders |-> match(b, o)])]

\* OrderBook.search_order(order_, order_type_ = None) called with an id:
\* the first source (ask, then bid) whose table knows the id
search_order(b, id) ==
  IF OrderList_get(b, ASK, id) # None THEN OrderList_get(b, ASK, id)
  ELSE OrderList_get(b, BID, id)

\* OrderBook.add(order_)
add(b, o) ==
  LET b1 == [SetOrd(b, o, "listed", b.clock + 1) EXCEPT !.clock = b.clock + 1]
      r == OrderList_add(b1, b1.ord[o].order_type, o)
  IN IF r.err # OK THEN r ELSE match_fill(r.b, o)

\* a cancel that marks the order before it looks at its status
cancel_marked(b, id) ==
  LET f == search_order(b, id)
  IN IF f = None THEN Ret(b, ValueError)
     ELSE IF ~is_active(b.ord[Val(f)].status)
          THEN Ret(SetOrd(b, Val(f), "status", CANCELLED), ValueError)
     ELSE OrderList_cancel(b, b.ord[Val(f)].order_type, Val(f))

\* OrderBook.cancel(order_)
cancel(b, id) ==
  LET f == search_order(b, id)
  IN IF f = None THEN Ret(b, ValueError)
     ELSE IF ~is_active(b.ord[Val(f)].status) THEN Ret(b, ValueError)
     ELSE OrderList_cancel(b, b.ord[Val(f)].order_type, Val(f))

\* OrderBook.expire(order_)
expire(b, id) ==
  LET f == search_order(b, id)
  IN IF f = None THEN Ret(b, ValueError)
     ELSE IF ~is_active(b.ord[Val(f)].status) THEN Ret(b, ValueError)
     ELSE OrderList_expire(b, b.ord[Val(f)].order_type, Val(f))

\* a restore that does not look at the status of the order
restore_unchecked(b, id) ==
  LET f == search_order(b, id)
  IN IF f = None THEN Ret(b, ValueError)
     ELSE LET r == OrderList_relist(b, b.ord[Val(f)].order_type, Val(f), RESTORED)
          IN IF r.err # OK THEN r ELSE match_fill(r.b, Val(f))

\* a restore that relists the order and runs no match
restore_unmatched(b, id) ==
  LET f == search_order(b, id)
  IN IF f = None THEN Ret(b, ValueError)
     ELSE IF is_active(b.ord[Val(f)].status) THEN Ret(b, ValueError)
     ELSE OrderList_relist(b, b.ord[Val(f)].order_type, Val(f), RESTORED)

\* OrderBook.restore(order_)
restore(b, id) ==
  LET f == search_order(b, id)
  IN IF f = None THEN Ret(b, ValueError)
     ELSE IF is_active(b.ord[Val(f)].status) THEN Ret(b, ValueError)
     ELSE LET r == OrderList_relist(b, b.ord[Val(f)].order_type, Val(f), RESTORED)
          IN IF r.err # OK THEN r ELSE match_fill(r.b, Val(f))

\* OrderBook.remove_order(order_)
remove_order(b, id) ==
  LET f == search_order(b, id)
  IN IF f = None THEN Ret(b, ValueError)
     ELSE OrderList_remove(b, b.ord[Val(f)].order_type, Val(f))

\* OrderBook.modify(order_, None, price_, volume_)
modify(b, id, price_, volume_) ==
  LET f == search_order(b, id)
  IN IF f = None THEN Ret(b, ValueError)
     ELSE LET r == OrderList_modify(b, b.ord[Val(f)].order_type, Val(f), price_, volume_)
          IN IF r.err # OK THEN r ELSE match_fill(r.b, Val(f))

\* OrderBook.get_order(order_, order_type_): the first statement binds
\* order_ to None, so neither isinstance test holds and ValueError("Invalid
\* order type") is raised; None stands for the raise
get_order(b, order_, order_type_) ==
  LET order_1 == None
  IN IF order_1 # None
     THEN OrderList_get(b, order_type_, Val(order_1))
     ELSE None

\* OrderBook.search_order(order_, order_type_) called with an id and an
\* optional side: a side that is given sends the call to get_order
search_order_side(b, id, order_type_) ==
  IF order_type_ # None THEN get_order(b, Some(id), Val(order_type_))
  ELSE search_order(b, id)

\* OrderBook.cancel(order_, order_type_): search_order comes first and its
\* ValueError ends the call; past it the call goes on as the call by id
cancel_side(b, id, order_type_) ==
  IF search_order_side(b, id, order_type_) = None THEN Ret(b, ValueError)
  ELSE cancel(b, id)

\* OrderBook.expire(order_, order_type_)
expire_side(b, id, order_type_) ==
  IF search_order_side(b, id, order_type_) = None THEN Ret(b, ValueError)
  ELSE expire(b, id)

\* OrderBook.restore(order_, order_type_)
restore_side(b, id, order_type_) ==
  IF search_order_side(b, id, order_type_) = None THEN Ret(b, ValueError)
  ELSE restore(b, id)

\* OrderBook.remove_order(order_, order_type_)
remove_order_side(b, id, order_type_) ==
  IF search_order_side(b, id, order_type_) = None THEN Ret(b, ValueError)
  ELSE remove_order(b, id)

\* OrderBook.modify(order_, order_type_, price_, volume_)
modify_side(b, id, order_type_, price_, volume_) ==
  IF search_order_side(b, id, order_type_) = None THEN Ret(b, ValueError)
  ELSE modify(b, id, price_, volume_)

\* a proceede that returns the copy and forgets to clear the tape
proceede_uncleared(b) == [b |-> b, ret |-> b.tape]

\* OrderBook.proceede(): the copy that is returned, and the cleared tape
proceede(b) == [b |-> [b EXCEPT !.tape = <<>>], ret |-> b.tape]

\* ------------------------------------------------------ OrderIdGenerator
\* self.save_frequency
save_frequency == 100

\* OrderIdGenerator.load_state(): 0 when the state file does not exist
load_state(file) == IF file = None THEN 0 ELSE Val(file)

\* OrderIdGenerator.__init__()
OrderIdGenerator(file) ==
  [id_counter |-> load_state(file), iterations_since_last_save |-> 0]

\* OrderIdGenerator.save_state(): the content of the state file afterwards
save_state(g) == Some(g.id_counter)

\* OrderIdGenerator.__next__(): the generator and the file afterwards, and
\* the id that is returned
OrderIdGenerator_next(g, file) ==
  LET current_id == g.id_counter
      g1 == [g EXCEPT !.id_counter = @ + 1, !.iterations_since_last_save = @ + 1]
  IN IF g1.iterations_since_last_save >= save_frequency
     THEN [g |-> [g1 EXCEPT !.iterations_since_last_save = 0],
           file |-> save_state(g1), ret |-> current_id]
     ELSE [g |-> g1, file |-> file, ret |-> current_id]

\* OrderIdGenerator.reset_state()
reset_state(g) ==
  LET g1 == [g EXCEPT !.id_counter = 0]
  IN [g |-> g1, file |-> save_state(g1)]

\* ---------------------------------------------------------------- actions
\* t0: the length of the tape when the call was made
Call(op, id, r) ==
  [op |-> op, id |-> id, res |-> r.err, mf |-> r.mf,
   price |-> None, volume |-> None, ret |-> <<>>, t0 |-> Len(tape)]

\* Orders no table and no list refers to any more are gone.
Commit(b) ==
  LET live == b.ids[ASK] \cup b.ids[BID]
                \cup {b.olist[ASK][i] : i \in 1..Len(b.olist[ASK])}
                \cup {b.olist[BID][i] : i \in 1..Len(b.olist[BID])}
  IN /\ nops < MaxOps
     /\ nops' = nops + 1
     /\ ord' = [i \in live |-> b.ord[i]]
     /\ olist' = b.olist
     /\ ids' = b.ids
     /\ tape' = b.tape
     /\ clock' = b.clock
     /\ hist' = b.hist
     /\ gen' = gen

Init ==
  /\ ord = [i \in {} |-> Order(i, ASK, 1, 1)]
  /\ olist = [t \in OrderType |-> <<>>]
  /\ ids = [t \in OrderType |-> {}]
  /\ tape = <<>>
  /\ clock = 0
  /\ nextId = 1
  /\ nops = 0
  /\ hist = <<>>
  /\ delivered = <<>>
  /\ last = [op |-> "init", id |-> 0, res |-> OK, mf |-> None,
             price |-> None, volume |-> None, ret |-> <<>>, t0 |-> 0]
  /\ gen = [g |-> OrderIdGenerator(None), file |-> None, op |-> "init", out |-> None,
            issued |-> None, issued_before |-> None, restarts |-> 0, resets |-> 0]

\* order_book.add(Order(id = next id, order_type, price, volume, owner_id))
Add(order_type, price, volume) ==
  /\ nextId <= MaxOrders
  /\ LET o == nextId
         b0 == [Book EXCEPT !.ord = [i \in DOMAIN ord \cup {o} |->
                                       IF i = o THEN Order(o, order_type, price, volume)
                                       ELSE ord[i]]]
         r == add(b0, o)
     IN /\ Commit(r.b)
        /\ nextId' = nextId + 1
        /\ last' = [Call("add", o, r) EXCEPT !.price = Some(price), !.volume = Some(volume)]
        /\ UNCHANGED delivered

Cancel(id) ==
  LET r == cancel(Book, id)
  IN /\ Commit(r.b)
     /\ last' = Call("cancel", id, r)
     /\ UNCHANGED <<nextId, delivered>>

Expire(id) ==
  LET r == expire(Book, id)
  IN /\ Commit(r.b)
     /\ last' = Call("expire", id, r)
     /\ UNCHANGED <<nextId, delivered>>

Restore(id) ==
  LET r == restore(Book, id)
  IN /\ Commit(r.b)
     /\ last' = Call("restore", id, r)
     /\ UNCHANGED <<nextId, delivered>>

RemoveOrder(id) ==
  LET r == remove_order(Book, id)
  IN /\ Commit(r.b)
     /\ last' = Call("remove_order", id, r)
     /\ UNCHANGED <<nextId, delivered>>

Modify(id, price, volume) ==
  LET r == modify(Book, id, price, volume)
  IN /\ Commit(r.b)
     /\ last' = [Call("modify", id, r) EXCEPT !.price = price, !.volume = volume]
     /\ UNCHANGED <<nextId, delivered>>

Proceede ==
  LET r == proceede(Book)
  IN /\ Commit(r.b)
     /\ last' = [Call("proceede", 0, Ret(r.b, OK)) EXCEPT !.ret = r.ret]
     /\ delivered' = delivered \o r.ret
     /\ UNCHANGED nextId

\* The calls of Spec address orders by id alone (known ids and unknown ones)
\* and give modify both arguments, each supplied and positive.
\* a supplied, positive argument of modify
Supplied(S) == {Some(x) : x \in S}

Next ==
  \/ \E t \in OrderType, p \in Prices, v \in Volumes : Add(t, p, v)
  \/ \E id \in Ids : Cancel(id)
  \/ \E id \in Ids : Expire(id)
  \/ \E id \in Ids : Restore(id)
  \/ \E id \in Ids : RemoveOrder(id)
  \/ \E id \in Ids, p \in Supplied(Prices), v \in Supplied(Volumes) : Modify(id, p, v)
  \/ Proceede

Spec == Init /\ [][Next]_vars

\* an argument of modify as a caller may give it: supplied and positive,
\* supplied and not positive, or omitted
Offered(S) == Supplied(S) \cup {Some(0), None}

\* the calls of Spec, with the arguments of modify drawn from Offered
NextArgs ==
  \/ \E t \in OrderType, p \in Prices, v \in Volumes : Add(t, p, v)
  \/ \E id \in Ids : Cancel(id)
  \/ \E id \in Ids : Expire(id)
  \/ \E id \in Ids : Restore(id)
  \/ \E id \in Ids : RemoveOrder(id)
  \/ \E id \in Ids, p \in Offered(Prices), v \in Offered(Volumes) : Modify(id, p, v)
  \/ Proceede

SpecArgs == Init /\ [][NextArgs]_vars

\* the calls that give the side of the order they address along with its id
CancelSide(id) ==
  /\ id \in ids[ASK] \cup ids[BID]
  /\ LET r == cancel_side(Book, id, Some(ord[id].order_type))
     IN /\ Commit(r.b)
        /\ last' = Call("cancel_side", id, r)
        /\ UNCHANGED <<nextId, delivered>>

ExpireSide(id) ==
  /\ id \in ids[ASK] \cup ids[BID]
  /\ LET r == expire_side(Book, id, Some(ord[id].order_type))
     IN /\ Commit(r.b)
        /\ last' = Call("expire_side", id, r)
        /\ UNCHANGED <<nextId, delivered>>

RestoreSide(id) ==
  /\ id \in ids[ASK] \cup ids[BID]
  /\ LET r == restore_side(Book, id, Some(ord[id].order_type))
     IN /\ Commit(r.b)
        /\ last' = Call("restore_side", id, r)
        /\ UNCHANGED <<nextId, delivered>>

RemoveOrderSide(id) ==
  /\ id \in ids[ASK] \cup ids[BID]
  /\ LET r == remove_order_side(Book, id, Some(ord[id].order_type))
     IN /\ Commit(r.b)
        /\ last' = Call("remove_order_side", id, r)
        /\ UNCHANGED <<nextId, delivered>>

ModifySide(id, price, volume) ==
  /\ id \in ids[ASK] \cup ids[BID]
  /\ LET r == modify_side(Book, id, Some(ord[id].order_type), price, volume)
     IN /\ Commit(r.b)
        /\ last' = [Call("modify_side", id, r) EXCEPT !.price = price, !.volume = volume]
        /\ UNCHANGED <<nextId, delivered>>

\* the calls of Spec, and the calls by id and side
NextSide ==
  \/ \E t \in OrderType, p \in Prices, v \in Volumes : Add(t, p, v)
  \/ \E id \in Ids : Cancel(id)
  \/ \E id \in Ids : Expire(id)
  \/ \E id \in Ids : Restore(id)
  \/ \E id \in Ids : RemoveOrder(id)
  \/ \E id \in Ids, p \in Supplied(Prices), v \in Supplied(Volumes) : Modify(id, p, v)
  \/ Proceede
  \/ \E id \in Ids : CancelSide(id)
  \/ \E id \in Ids : ExpireSide(id)
  \/ \E id \in Ids : RestoreSide(id)
  \/ \E id \in Ids : RemoveOrderSide(id)
  \/ \E id \in Ids, p \in Supplied(Prices), v \in Supplied(Volumes) : ModifySide(id, p, v)

SpecSide == Init /\ [][NextSide]_vars

\* the larger of two optional numbers
MaxOpt(x, y) ==
  IF x = None THEN y
  ELSE IF y = None THEN x
  ELSE IF Val(x) >= Val(y) THEN x ELSE y

\* next(generator); issued: the highest id this process has issued
IdNext ==
  /\ gen.g.id_counter < MaxNext
  /\ LET r == OrderIdGenerator_next(gen.g, gen.file)
     IN gen' = [gen EXCEPT !.g = r.g, !.file = r.file, !.op = "next",
                           !.out = Some(r.ret),
                           !.issued = MaxOpt(@, Some(r.ret))]
  /\ UNCHANGED <<ord, olist, ids, tape, clock, nextId, nops, last, hist, delivered>>

\* generator.reset_state()
IdReset ==
  /\ gen.resets < MaxResets
  /\ LET r == reset_state(gen.g)
     IN gen' = [gen EXCEPT !.g = r.g, !.file = r.file, !.op = "reset_state",
                           !.out = None, !.resets = @ + 1]
  /\ UNCHANGED <<ord, olist, ids, tape, clock, nextId, nops, last, hist, delivered>>

\* the process stops between two calls and a new process builds its
\* generator from the state file; issued_before: the highest id the earlier
\* processes have issued
IdRestart ==
  /\ gen.restarts < MaxRestarts
  /\ gen' = [gen EXCEPT !.g = OrderIdGenerator(gen.file), !.op = "restart",
                        !.out = None, !.issued = None,
                        !.issued_before = MaxOpt(@, gen.issued),
                        !.restarts = @ + 1]
  /\ UNCHANGED <<ord, olist, ids, tape, clock, nextId, nops, last, hist, delivered>>

NextGen ==
  \/ IdNext
  \/ IdReset
  \/ IdRestart

SpecGen == Init /\ [][NextGen]_vars

\* ------------------------------------------------------ notions for claims
ListOf(ol, t) == {ol[t][i] : i \in 1..Len(ol[t])}
Listed(t) == ListOf(olist, t)

\* the trade records the last call appended
NewRecords == SubSeq(tape, last.t0 + 1, Len(tape))

RECURSIVE SumVolume(_)
SumVolume(recs) ==
  IF recs = <<>> THEN 0 ELSE recs[1].volume + SumVolume(Tail(recs))

Naming(recs, c) == {k \in 1..Len(recs) : recs[k].contr_order = c}

\* the last call ran OrderBook.fill (through match_fill)
Matched == last.mf # None
Aggressor == Val(last.mf).order
VolumeAtFill == Val(last.mf).volume
Candidates == Val(last.mf).counter_orders

\* price p of a resting order of type t is acceptable to an aggressor at price q
Acceptable(t, p, q) == IF t = BID THEN p >= q ELSE p <= q

\* C1: no volume is created or destroyed by matching: when OrderBook.fill is
\* left, by return or by exception, the aggressor's remaining volume plus the
\* volumes of the records appended in the call is its volume when the call
\* began, every appended record names the aggressor, at most one record names
\* a counter order and that order's volume dropped by exactly that record's
\* volume (by nothing when no record names it).
C1_Step ==
  Matched' =>
    /\ ord'[Aggressor'].volume + SumVolume(NewRecords') = VolumeAtFill'
    /\ \A k \in 1..Len(NewRecords') : NewRecords'[k].order = Aggressor'
    /\ \A c \in DOMAIN ord \ {Aggressor'} :
         /\ Cardinality(Naming(NewRecords', c)) <= 1
         /\ ord[c].volume - ord'[c].volume =
              SumVolume([k \in 1..Cardinality(Naming(NewRecords', c)) |->
                           NewRecords'[CHOOSE j \in Naming(NewRecords', c) : TRUE]])

C1_VolumeConserved == [][C1_Step]_vars

\* C2: an order held in a side's id table is in that side's sorted list if
\* and only if its status is active.
C2_StatusIndexCoupling ==
  \A t \in OrderType : \A o \in ids[t] :
    o \in Listed(t) <=> ord[o].status \in {CREATED, PARTIALLY_FILLED, MODIFIED, RESTORED}

\* an order left the list by cancel, expire or a fill, another one is listed
C2_Witness ==
  /\ \E t \in OrderType : \E o \in ids[t] :
       ord[o].status \in {CANCELLED, EXPIRED, FILLED} /\ o \notin Listed(t)
  /\ \E t \in OrderType : \E o \in ids[t] : o \in Listed(t)
  /\ last.op \in {"cancel", "expire", "restore", "modify"} /\ last.res = OK

\* C3: every active order has volume > 0, and an order has volume 0 if and
\* only if its status is FILLED.
C3_VolumeStatus ==
  \A o \in DOMAIN ord :
    /\ is_active(ord[o].status) => ord[o].volume > 0
    /\ ord[o].volume = 0 <=> ord[o].status = FILLED

\* C4: every trade record appended while matching an aggressor of price P
\* names a counter order of the opposite type whose price is acceptable:
\* >= P for an ask aggressor, <= P for a bid aggressor (fill changes no price,
\* so the prices after the call are the prices at the time of the trade).
C4_PriceAcceptance ==
  Matched =>
    \A k \in 1..Len(NewRecords) :
      LET o == NewRecords[k].order
          c == NewRecords[k].contr_order
      IN /\ o = Aggressor
         /\ ord[c].order_type = Other(ord[o].order_type)
         /\ Acceptable(ord[c].order_type, ord[c].price, ord[o].price)

\* a modify made an ask trade with a bid priced above it
C4_Witness ==
  /\ last.op = "modify" /\ Matched /\ NewRecords # <<>>
  /\ ord[Aggressor].order_type = ASK
  /\ ord[NewRecords[1].contr_order].price > ord[Aggressor].price

\* C5: every trade record carries the counter order's price, and its volume
\* is the minimum of the aggressor's and the counter order's remaining
\* volumes as they were immediately before that trade.
C5_Step ==
  Matched' =>
    \A k \in 1..Len(NewRecords') :
      LET r == NewRecords'[k]
          before == VolumeAtFill' - SumVolume(SubSeq(NewRecords', 1, k - 1))
      IN /\ r.price = ord[r.contr_order].price
         /\ r.volume = Min(before, ord[r.contr_order].volume)

C5_MakerPrice == [][C5_Step]_vars

\* a trade at the counter order's price, which is not the aggressor's, for
\* less than the aggressor asked for
C5_Witness ==
  /\ Matched /\ NewRecords # <<>>
  /\ NewRecords[1].price # ord[Aggressor].price
  /\ NewRecords[1].volume < VolumeAtFill

\* C6: whenever an operation raises, both sorted lists, both id tables, every
\* order's price, volume and status, and the tape are as before the call.
C6_Step ==
  last'.res # OK =>
    /\ olist' = olist
    /\ ids' = ids
    /\ tape' = tape
    /\ DOMAIN ord' = DOMAIN ord
    /\ \A o \in DOMAIN ord :
         /\ ord'[o].price = ord[o].price
         /\ ord'[o].volume = ord[o].volume
         /\ ord'[o].status = ord[o].status

C6_Transactional == [][C6_Step]_vars

\* C7: within one match_fill the counter orders are traded in ascending
\* `listed` order whatever their prices: when the aggressor trades with X,
\* every active, price-acceptable counter order listed before X was traded
\* down to volume 0 earlier in the call.  And the scenario (prices 100, 101,
\* 102 scaled to 1, 2, 3; volumes 10, 4 to 2, 1): an ask(1, volume 2) added
\* to a book whose bids are bid(2, volume 1) and an earlier listed
\* bid(3, volume 2) yields the one record price 3, volume 2 and leaves the
\* bid at 2 as it was.
C7_Step ==
  /\ Matched' =>
       LET o == Aggressor'
           t == Other(ord'[o].order_type)
           new == NewRecords'
       IN \A k \in 1..Len(new) : \A c \in ids[t] :
            ( /\ is_active(ord[c].status)
              /\ Acceptable(t, ord[c].price, ord'[o].price)
              /\ ord[c].listed < ord[new[k].contr_order].listed )
            => /\ \E j \in 1..(k - 1) : new[j].contr_order = c
               /\ ord'[c].volume = 0
  /\ \A x, y \in Listed(BID) :
       ( /\ last'.op = "add"
         /\ ord'[last'.id].order_type = ASK
         /\ last'.price = Some(1) /\ last'.volume = Some(2)
         /\ Listed(BID) = {x, y}
         /\ ord[x].price = 2 /\ ord[x].volume = 1 /\ is_active(ord[x].status)
         /\ ord[y].price = 3 /\ ord[y].volume = 2 /\ is_active(ord[y].status)
         /\ ord[y].listed < ord[x].listed )
       => /\ Len(NewRecords') = 1
          /\ NewRecords'[1].order = last'.id
          /\ NewRecords'[1].contr_order = y
          /\ NewRecords'[1].price = 3
          /\ NewRecords'[1].volume = 2
          /\ ord'[x] = ord[x]
          /\ x \in Listed(BID)'

C7_TimeOrdering == [][C7_Step]_vars

\* the scenario has happened: the ask traded with the earlier listed bid at
\* 3 and the later listed bid at 2 rests untouched
C7_Witness ==
  /\ last.op = "add" /\ last.res = OK
  /\ last.price = Some(1) /\ last.volume = Some(2)
  /\ ord[last.id].order_type = ASK
  /\ Len(NewRecords) = 1
  /\ NewRecords[1].price = 3 /\ NewRecords[1].volume = 2
  /\ \E x \in Listed(BID) :
       /\ ord[x].price = 2 /\ ord[x].volume = 1 /\ ord[x].status = CREATED
       /\ ord[NewRecords[1].contr_order].listed < ord[x].listed

RECURSIVE SumOrderVolume(_, _)
SumOrderVolume(o, S) ==
  IF S = {} THEN 0
  ELSE LET c == CHOOSE x \in S : TRUE
       IN o[c].volume + SumOrderVolume(o, S \ {c})

Max(x, y) == IF x >= y THEN x ELSE y

\* the active orders of type t whose price is acceptable to price q
AcceptableOrders(t, q) ==
  {c \in ids[t] : is_active(ord[c].status) /\ Acceptable(t, ord[c].price, q)}

\* C8: when add(order) with volume V returns and S is the total volume of
\* the active, price-acceptable opposite orders just before the call, the
\* order's remaining volume is max(0, V - S); if V > S every acceptable
\* counter order is FILLED and the order rests active in its own list with
\* volume V - S; if S = 0 no record is appended and the order rests CREATED
\* at volume V.
C8_Step ==
  (last'.op = "add" /\ last'.res = OK) =>
    LET o == last'.id
        own == ord'[o].order_type
        V == Val(last'.volume)
        acc == AcceptableOrders(Other(own), Val(last'.price))
        S == SumOrderVolume(ord, acc)
    IN /\ ord'[o].volume = Max(0, V - S)
       /\ V > S => /\ \A c \in acc : ord'[c].status = FILLED
                   /\ o \in ListOf(olist', own)
                   /\ is_active(ord'[o].status)
                   /\ ord'[o].volume = V - S
       /\ S = 0 => /\ tape' = tape
                   /\ o \in ListOf(olist', own)
                   /\ ord'[o].volume = V
                   /\ ord'[o].status = CREATED

C8_AddResult == [][C8_Step]_vars

\* an added order filled a counter order and rests with the remainder
C8_Witness ==
  /\ last.op = "add" /\ last.res = OK
  /\ Len(NewRecords) = 1
  /\ ord[NewRecords[1].contr_order].status = FILLED
  /\ ord[last.id].volume > 0
  /\ ord[last.id].status = PARTIALLY_FILLED
  /\ last.id \in Listed(ord[last.id].order_type)

\* the candidate at which the aggressor's volume reaches zero: the first one
\* up to which the candidates' volumes add up to the aggressor's
RECURSIVE VolumeUpTo(_, _, _)
VolumeUpTo(o, cands, i) ==
  IF i = 0 THEN 0 ELSE o[cands[i]].volume + VolumeUpTo(o, cands, i - 1)

\* C9: the fill loop stops when the aggressor's volume reaches zero: the
\* call returns once the exhausting trade is recorded, and every counter
\* order after the exhausting one in the candidate sequence keeps its
\* volume, status and place in the sorted list and is named by no record of
\* that call.
C9_Step ==
  Matched' =>
    LET cands == Candidates'
        V == VolumeAtFill'
        t == Other(ord'[Aggressor'].order_type)
    IN \A i \in 1..Len(cands) :
         ( /\ V > 0
           /\ VolumeUpTo(ord, cands, i) >= V
           /\ VolumeUpTo(ord, cands, i - 1) < V )
         => /\ Naming(NewRecords', cands[i]) # {} => last'.res = OK
            /\ \A j \in (i + 1)..Len(cands) :
                 /\ ord'[cands[j]] = ord[cands[j]]
                 /\ cands[j] \in ListOf(olist', t)
                 /\ cands[j] \in Listed(t)
                 /\ Naming(NewRecords', cands[j]) = {}

C9_LoopStops == [][C9_Step]_vars

\* the aggressor was exhausted by the first of two candidates
C9_Witness ==
  /\ Matched /\ last.res = OK
  /\ Len(Candidates) = 2
  /\ Len(NewRecords) = 1
  /\ NewRecords[1].contr_order = Candidates[1]
  /\ ord[Aggressor].status = FILLED
  /\ Candidates[2] \in Listed(Other(ord[Aggressor].order_type))

\* C10: proceede returns the tape as it was, in order, and leaves it empty;
\* a proceede right after a proceede returns nothing; the records returned
\* so far followed by the tape are the records appended so far, none lost
\* and none repeated.
C10_Step ==
  /\ delivered' \o tape' = hist'
  /\ \A i, j \in 1..Len(hist') : hist'[i] = hist'[j] => i = j
  /\ last'.op = "proceede" =>
       /\ last'.ret = tape
       /\ tape' = <<>>
       /\ delivered' = delivered \o last'.ret
  /\ (last.op = "proceede" /\ last'.op = "proceede") => last'.ret = <<>>

C10_Drain == [][C10_Step]_vars

\* a proceede that returned records was followed by one that returned none
C10_Witness ==
  /\ last.op = "proceede"
  /\ last.ret = <<>>
  /\ delivered # <<>>
  /\ delivered = hist

\* the ids the tables of the book know
Known == ids[ASK] \cup ids[BID]

\* C11: cancel and expire of an order whose status is not active (CANCELLED,
\* EXPIRED or FILLED) fail with an error and change nothing; a cancel that
\* follows a successful cancel of the same order fails.
C11_Step ==
  /\ ( /\ last'.op \in {"cancel", "expire"}
       /\ last'.id \in Known
       /\ ~is_active(ord[last'.id].status) )
     => /\ last'.res # OK
        /\ UNCHANGED <<ord, olist, ids, tape, hist>>
  /\ ( /\ last.op = "cancel" /\ last.res = OK
       /\ last'.op = "cancel" /\ last'.id = last.id )
     => /\ last'.res # OK
        /\ UNCHANGED <<ord, olist, ids, tape, hist>>

C11_InactiveRejected == [][C11_Step]_vars

\* a cancel or an expire was refused for an order that is FILLED or EXPIRED
C11_Witness ==
  /\ last.op \in {"cancel", "expire"}
  /\ last.id \in Known
  /\ ord[last.id].status \in {FILLED, EXPIRED}
  /\ last.res = ValueError

\* the sequence s without the order id
Without(s, id) == SelectSeq(s, LAMBDA x : x # id)

\* C12: cancel(id) and expire(id) of an active order return, set its status
\* to CANCELLED and EXPIRED, take exactly that order out of the sorted list
\* of its side, keep it in the id table and change nothing else, also when
\* the order shares its price with other active orders of its side.
C12_Step ==
  ( /\ last'.op \in {"cancel", "expire"}
    /\ last'.id \in Known
    /\ is_active(ord[last'.id].status) )
  => LET id == last'.id
         t == ord[id].order_type
         status == IF last'.op = "cancel" THEN CANCELLED ELSE EXPIRED
     IN /\ last'.res = OK
        /\ ord' = [ord EXCEPT ![id].status = status]
        /\ olist' = [olist EXCEPT ![t] = Without(olist[t], id)]
        /\ ids' = ids
        /\ tape' = tape

C12_ActiveCancelled == [][C12_Step]_vars

\* C13: restore of a FILLED order (volume 0) fails with an error and leaves
\* the order FILLED, with volume 0 and outside the sorted list.
C13_Step ==
  ( /\ last'.op = "restore"
    /\ last'.id \in Known
    /\ ord[last'.id].status = FILLED
    /\ ord[last'.id].volume = 0 )
  => LET id == last'.id
     IN /\ last'.res # OK
        /\ ord'[id].status = FILLED
        /\ ord'[id].volume = 0
        /\ id \notin ListOf(olist', ord[id].order_type)

C13_FilledNotRestored == [][C13_Step]_vars

\* C14: restore of an active order fails with an error and changes nothing:
\* the order is not inserted a second time, its status and its `listed`
\* stay, and no matching is run.
C14_Step ==
  ( /\ last'.op = "restore"
    /\ last'.id \in Known
    /\ is_active(ord[last'.id].status) )
  => /\ last'.res = ValueError
     /\ last'.mf = None
     /\ UNCHANGED <<ord, olist, ids, tape, hist, clock>>

C14_ActiveNotRestored == [][C14_Step]_vars

\* a restore was refused for an active order that rests in its sorted list
C14_Witness ==
  /\ last.op = "restore"
  /\ last.res = ValueError
  /\ last.id \in Known
  /\ is_active(ord[last.id].status)
  /\ last.id \in Listed(ord[last.id].order_type)

\* what a trade record says of the counter side
CounterPart(rec) ==
  [contr_order |-> rec.contr_order, price |-> rec.price, volume |-> rec.volume]

CounterParts(recs) == [i \in 1..Len(recs) |-> CounterPart(recs[i])]

\* the id of the next new order, which no order of the book has
Fresh == nextId

\* the outcome of add for a new order of the given side, price and volume
\* in the current book
AddOfNew(order_type, price, volume) ==
  add([Book EXCEPT !.ord = [i \in DOMAIN ord \cup {Fresh} |->
                             IF i = Fresh THEN Order(Fresh, order_type, price, volume)
                             ELSE ord[i]]], Fresh)

\* C15: restore of a CANCELLED or EXPIRED order (with volume left) sets it
\* to RESTORED, gives it a `listed` later than that of every order of the
\* book, puts it back into the sorted list and runs the match: the call
\* ends as add of a new order of the same side, price and volume would end
\* in the same book, with the same trade records (counter order, price,
\* volume), the same changes to every other order and to the opposite list,
\* and the same remainder, status after a fill and place for the order itself.
C15_Step ==
  ( /\ last'.op = "restore"
    /\ last'.id \in Known
    /\ ord[last'.id].status \in {CANCELLED, EXPIRED}
    /\ ord[last'.id].volume > 0 )
  => LET id == last'.id
         t == ord[id].order_type
         ra == AddOfNew(t, ord[id].price, ord[id].volume)
         new == ra.b.ord[Fresh]
     IN /\ last'.res = ra.err
        /\ CounterParts(SubSeq(tape', Len(tape) + 1, Len(tape')))
             = CounterParts(SubSeq(ra.b.tape, Len(tape) + 1, Len(ra.b.tape)))
        /\ \A c \in DOMAIN ord \ {id} : ord'[c] = ra.b.ord[c]
        /\ olist'[Other(t)] = ra.b.olist[Other(t)]
        /\ \A c \in DOMAIN ord : ord'[id].listed > ord[c].listed
        /\ ord'[id].listed = new.listed
        /\ ord'[id].volume = new.volume
        /\ ord'[id].status = IF new.status = CREATED THEN RESTORED ELSE new.status
        /\ Len(olist'[t]) = Len(ra.b.olist[t])
        /\ \A i \in 1..Len(olist'[t]) :
             olist'[t][i] = IF ra.b.olist[t][i] = Fresh THEN id ELSE ra.b.olist[t][i]

C15_RestoreAsAdd == [][C15_Step]_vars

\* the restore of an order that had not traded before returned with trades
C15_Witness ==
  /\ last.op = "restore"
  /\ last.res = OK
  /\ NewRecords # <<>>
  /\ \A i \in 1..Len(hist) : hist[i].order = last.id \/ hist[i].contr_order = last.id
        => \E j \in 1..Len(NewRecords) : NewRecords[j] = hist[i]
  /\ ord[last.id].status \in {PARTIALLY_FILLED, FILLED}

\* C16: after a modify of an active order that returned, the order is
\* MODIFIED (or PARTIALLY_FILLED or FILLED by the match that follows), it
\* rests in its sorted list unless the match filled it, and its `listed` is
\* later than that of every order listed before the call.
C16_Step ==
  ( /\ last'.op = "modify"
    /\ last'.res = OK
    /\ last'.id \in Known
    /\ is_active(ord[last'.id].status) )
  => LET id == last'.id
     IN /\ ord'[id].status \in {MODIFIED, PARTIALLY_FILLED, FILLED}
        /\ ord'[id].status # FILLED => id \in ListOf(olist', ord[id].order_type)
        /\ \A c \in DOMAIN ord \ {id} : ord'[id].listed > ord[c].listed

C16_ModifyRefreshesListed == [][C16_Step]_vars

\* C17: modify of an active order with a positive new price and the volume
\* omitted, or a positive new volume and the price omitted, returns, writes
\* the field supplied, leaves the other field as it was, and runs the match.
C17_Step ==
  ( /\ last'.op = "modify"
    /\ last'.id \in Known
    /\ is_active(ord[last'.id].status)
    /\ \/ last'.price \in Supplied(Prices) /\ last'.volume = None
       \/ last'.price = None /\ last'.volume \in Supplied(Volumes) )
  => LET id == last'.id
     IN /\ last'.res = OK
        /\ last'.mf # None
        /\ last'.mf # None =>
             /\ Val(last'.mf).order = id
             /\ Val(last'.mf).volume
                  = IF last'.volume = None THEN ord[id].volume ELSE Val(last'.volume)
        /\ ord'[id].price = IF last'.price = None THEN ord[id].price ELSE Val(last'.price)

C17_OneFieldModify == [][C17_Step]_vars

\* C18: modify with a positive price and a positive volume of an order that
\* is CANCELLED, EXPIRED or FILLED returns and writes the two fields in
\* place: status, sorted lists, tables and tape stay and no other order
\* changes, whatever rests on the opposite side.
C18_Step ==
  ( /\ last'.op = "modify"
    /\ last'.id \in Known
    /\ ~is_active(ord[last'.id].status)
    /\ last'.price \in Supplied(Prices)
    /\ last'.volume \in Supplied(Volumes) )
  => /\ last'.res = OK
     /\ ord' = [ord EXCEPT ![last'.id].price = Val(last'.price),
                           ![last'.id].volume = Val(last'.volume)]
     /\ UNCHANGED <<olist, ids, tape>>

C18_InactiveModifiedInPlace == [][C18_Step]_vars

\* C19: modify with a supplied price <= 0 or a supplied volume <= 0 fails
\* with an error before anything is written: orders, sorted lists, tables
\* and tape stay and no match is run; and every order of every reachable
\* state has a price > 0.
C19_Step ==
  /\ ( /\ last'.op = "modify"
       /\ \/ last'.price # None /\ Val(last'.price) <= 0
          \/ last'.volume # None /\ Val(last'.volume) <= 0 )
     => /\ last'.res # OK
        /\ last'.mf = None
        /\ UNCHANGED <<ord, olist, ids, tape, hist, clock>>
  /\ \A c \in DOMAIN ord' : ord'[c].price > 0

C19_NonPositiveRejected == [][C19_Step]_vars

\* a modify to price 0 of an active, listed order was refused
C19_Witness ==
  /\ last.op = "modify"
  /\ last.price = Some(0)
  /\ last.volume \in Supplied(Volumes)
  /\ last.res = ValueError
  /\ last.id \in Known
  /\ is_active(ord[last.id].status)
  /\ last.id \in Listed(ord[last.id].order_type)

\* the statuses one allowed transition leads to
Transitions(s) ==
  IF is_active(s) THEN {PARTIALLY_FILLED, FILLED, CANCELLED, EXPIRED, MODIFIED}
  ELSE IF s \in {CANCELLED, EXPIRED} THEN {RESTORED}
  ELSE {}

\* the statuses at most n allowed transitions lead to
RECURSIVE MayBecome(_, _)
MayBecome(s, n) ==
  IF n = 0 THEN {s}
  ELSE LET S == MayBecome(s, n - 1)
       IN S \cup UNION {Transitions(x) : x \in S}

\* C20: whenever a call changes the status of an order, the change is a
\* chain of the allowed transitions (active to PARTIALLY_FILLED, FILLED,
\* CANCELLED, EXPIRED or MODIFIED; CANCELLED or EXPIRED to RESTORED); a
\* FILLED order keeps its status for ever.
C20_Step ==
  \A c \in DOMAIN ord \cap DOMAIN ord' :
    /\ ord'[c].status \in MayBecome(ord[c].status, Cardinality(OrderStatus))
    /\ ord[c].status = FILLED => ord'[c].status = FILLED

C20_Lifecycle == [][C20_Step]_vars

\* C21: an order that was added stays in the id table of its side, and
\* search_order finds it by its id, through every call but a remove_order
\* of that order, whatever its status; add enters the new order into the
\* table even when its match fails; and the members of a side's sorted
\* list are always members of that side's id table.
C21_Step ==
  /\ \A t \in OrderType : ListOf(olist', t) \subseteq ids'[t]
  /\ \A t \in OrderType :
       ids[t] \ (IF last'.op = "remove_order" THEN {last'.id} ELSE {}) \subseteq ids'[t]
  /\ \A id \in Known :
       (last'.op = "remove_order" => id # last'.id)
         => search_order([ids |-> ids'], id) = Some(id)
  /\ last'.op = "add" => last'.id \in ids'[ord'[last'.id].order_type]

C21_IdTableRetention == [][C21_Step]_vars

\* an order was filled, another was expired, and both are still known by id
C21_Witness ==
  /\ last.op = "expire" /\ last.res = OK
  /\ last.id \in Known
  /\ ord[last.id].status = EXPIRED
  /\ last.id \notin Listed(ord[last.id].order_type)
  /\ \E id \in Known : ord[id].status = FILLED /\ id \notin Listed(ord[id].order_type)

\* the calls that address an order by its id
ByIdOps == {"cancel", "expire", "restore", "modify", "remove_order"}

\* C22: remove_order(id) of an order the book knows, active or not,
\* returns, takes the id out of its side's table and, if the order is
\* active, the order out of the sorted list; it runs no match and leaves
\* the tape and every other order as they were; a later call that
\* addresses the id fails.
C22_Step ==
  /\ ( last'.op = "remove_order" /\ last'.id \in Known )
     => LET id == last'.id
            t == ord[id].order_type
        IN /\ last'.res = OK
           /\ last'.mf = None
           /\ ids' = [ids EXCEPT ![t] = @ \ {id}]
           /\ olist' = [olist EXCEPT ![t] = Without(olist[t], id)]
           /\ \A c \in DOMAIN ord \ {id} : c \in DOMAIN ord' /\ ord'[c] = ord[c]
           /\ tape' = tape
  /\ ( /\ last.op = "remove_order" /\ last.res = OK
       /\ last'.op \in ByIdOps /\ last'.id = last.id )
     => last'.res = ValueError

C22_RemoveOrder == [][C22_Step]_vars

\* the outcome of the call of the same method by id alone in the current book
ByIdAlone ==
  LET id == last'.id
  IN CASE last'.op = "cancel_side" -> cancel(Book, id)
       [] last'.op = "expire_side" -> expire(Book, id)
       [] last'.op = "restore_side" -> restore(Book, id)
       [] last'.op = "remove_order_side" -> remove_order(Book, id)
       [] last'.op = "modify_side" -> modify(Book, id, last'.price, last'.volume)

\* C23: cancel, expire, restore, modify and remove_order called with the id
\* of an order and the side of that order end as the call with the id
\* alone ends: the same result and the same orders, lists, tables and tape.
C23_Step ==
  last'.op \in {"cancel_side", "expire_side", "restore_side",
                "remove_order_side", "modify_side"}
  => LET r == ByIdAlone
     IN /\ last'.res = r.err
        /\ olist' = r.b.olist
        /\ ids' = r.b.ids
        /\ tape' = r.b.tape
        /\ \A c \in DOMAIN ord' : ord'[c] = r.b.ord[c]

C23_SideAdvisory == [][C23_Step]_vars

\* C24: in every reachable state the sorted list of each side is in order
\* of non-decreasing current price, so no order rests at a place that
\* disagrees with its price, also after a modify that changed a price.
C24_Sorted ==
  \A t \in OrderType : \A i \in 1..(Len(olist[t]) - 1) :
    ord[olist[t][i]].price <= ord[olist[t][i + 1]].price

\* a modify moved an order behind a cheaper order that was listed after it
C24_Witness ==
  /\ last.op = "modify" /\ last.res = OK
  /\ last.id \in Known
  /\ ord[last.id].status = MODIFIED
  /\ LET s == olist[ord[last.id].order_type]
     IN /\ Len(s) >= 2
        /\ s[2] = last.id
        /\ ord[s[1]].price < ord[s[2]].price
        /\ ord[s[1]].listed > ord[s[2]].listed

\* price p of a resting order of type t is better for an aggressor than price q
Better(t, p, q) == IF t = BID THEN p > q ELSE p < q

\* C25: price-time priority: when the aggressor trades with X in a
\* match_fill, every active, price-acceptable counter order with volume
\* left and a better price than X (a higher bid for an ask aggressor, a
\* lower ask for a bid aggressor), and every one of X's price listed before
\* X, was traded down to volume 0 earlier in the call.
C25_Step ==
  Matched' =>
    LET o == Aggressor'
        t == Other(ord'[o].order_type)
        new == NewRecords'
    IN \A k \in 1..Len(new) : \A c \in ids[t] :
         LET x == new[k].contr_order
         IN ( /\ is_active(ord[c].status)
              /\ ord[c].volume > 0
              /\ Acceptable(t, ord[c].price, ord'[o].price)
              /\ \/ Better(t, ord[c].price, ord[x].price)
                 \/ ord[c].price = ord[x].price /\ ord[c].listed < ord[x].listed )
            => /\ \E j \in 1..(k - 1) : new[j].contr_order = c
               /\ ord'[c].volume = 0

C25_PriceTimePriority == [][C25_Step]_vars

\* C25, amended: matching follows time priority alone: the records of one
\* match_fill name counter orders in ascending `listed` order, whatever
\* their prices, and among counter orders of equal price the one listed
\* earliest is traded first; a better price gives no precedence.
C25_TimeStep ==
  Matched' =>
    LET o == Aggressor'
        t == Other(ord'[o].order_type)
        new == NewRecords'
    IN /\ \A j, k \in 1..Len(new) :
            j < k => ord[new[j].contr_order].listed < ord[new[k].contr_order].listed
       /\ \A k \in 1..Len(new) : \A c \in ids[t] :
            LET x == new[k].contr_order
            IN ( /\ is_active(ord[c].status)
                 /\ Acceptable(t, ord[c].price, ord'[o].price)
                 /\ ord[c].price = ord[x].price
                 /\ ord[c].listed < ord[x].listed )
               => /\ \E j \in 1..(k - 1) : new[j].contr_order = c
                  /\ ord'[c].volume = 0

C25_TimePriority == [][C25_TimeStep]_vars

\* the aggressor traded with an earlier listed counter order while a later
\* listed one with a better, acceptable price rests untouched
C25_Witness ==
  /\ Matched /\ last.res = OK
  /\ Len(NewRecords) = 1
  /\ LET o == Aggressor
         t == Other(ord[o].order_type)
         x == NewRecords[1].contr_order
     IN \E c \in Listed(t) :
          /\ Better(t, ord[c].price, ord[x].price)
          /\ Acceptable(t, ord[c].price, ord[o].price)
          /\ ord[c].listed > ord[x].listed
          /\ ord[c].volume > 0
          /\ c # x

\* C26: ids do not repeat across a stop and restart: every id a process
\* issues is greater than every id the processes before it have issued.
C26_Step ==
  ( gen'.op = "next" /\ gen.issued_before # None )
  => Val(gen'.out) > Val(gen.issued_before)

C26_NoRepeatAcrossRestart == [][C26_Step]_vars

\* C27: within one process every value __next__ returns is >= 1 and
\* greater than every value it returned before, also the first value of a
\* generator built without a state file and the values after reset_state.
C27_Step ==
  gen'.op = "next"
  => /\ Val(gen'.out) >= 1
     /\ gen.issued # None => Val(gen'.out) > Val(gen.issued)

C27_IncreasingPositive == [][C27_Step]_vars

\* C28: the book is not crossed between calls: in every reachable state no
\* active bid and active ask of the sorted lists have bid price >= ask
\* price, whether the calls so far returned or raised.
C28_NotCrossed ==
  \A x \in Listed(BID), y \in Listed(ASK) :
    (is_active(ord[x].status) /\ is_active(ord[y].status))
      => ord[x].price < ord[y].price

\* C29: every trade record is well formed: a record a match_fill appends
\* has volume > 0 and names the aggressor and a counter order of the
\* opposite side, a different order; the counter order was active with at
\* least that volume before the call, and the aggressor was active with at
\* least that volume left when the trade was made (an order that is not
\* active trades nothing); and every candidate of a match is an active
\* order of the opposite side.
C29_Step ==
  Matched' =>
    LET o == Aggressor'
        t == Other(ord'[o].order_type)
        new == NewRecords'
        cands == Candidates'
    IN /\ \A i \in 1..Len(cands) :
            /\ cands[i] \in DOMAIN ord
            /\ ord[cands[i]].order_type = t
            /\ is_active(ord[cands[i]].status)
       /\ \A k \in 1..Len(new) :
            LET c == new[k].contr_order
            IN /\ new[k].volume > 0
               /\ new[k].order = o
               /\ c # o
               /\ c \in DOMAIN ord
               /\ ord[c].order_type = t
               /\ is_active(ord[c].status)
               /\ ord[c].volume >= new[k].volume
               /\ VolumeAtFill' - SumVolume(SubSeq(new, 1, k - 1)) >= new[k].volume
       /\ (new # <<>> /\ o \in DOMAIN ord /\ last'.op = "modify")
            => is_active(ord[o].status)
       /\ (new # <<>> /\ last'.op = "restore") => VolumeAtFill' > 0

C29_TradeWellFormed == [][C29_Step]_vars

\* a modify made its order trade and the record is on the tape
C29_Witness ==
  /\ last.op = "modify" /\ last.res = OK
  /\ Matched
  /\ Len(NewRecords) >= 1
  /\ NewRecords[1].order = last.id
  /\ ord[NewRecords[1].contr_order].status = FILLED

\* C30: no duplicate listing: in every reachable state an order id occurs
\* at most once in a sorted list, is in the id table of at most one side,
\* and the side whose list or table holds it is its order_type.
C30_NoDuplicateListing ==
  /\ \A t \in OrderType : \A i, j \in 1..Len(olist[t]) :
       olist[t][i] = olist[t][j] => i = j
  /\ ids[ASK] \cap ids[BID] = {}
  /\ \A t \in OrderType : \A id \in ids[t] \cup Listed(t) : ord[id].order_type = t

\* an order was taken out of its list and restored, and rests once in the
\* list, behind an order that was added after it
C30_Witness ==
  /\ last.op = "restore" /\ last.res = OK
  /\ last.id \in Known
  /\ ord[last.id].status = RESTORED
  /\ ord[last.id].volume > 0
  /\ LET s == olist[ord[last.id].order_type]
     IN /\ Len(s) = 2
        /\ Cardinality({i \in 1..Len(s) : s[i] = last.id}) = 1
        /\ s[2] = last.id
        /\ s[1] > last.id

====
